---- MODULE Spec2Model ----
(***************************************************************************)
(* A model of the PaymentOps war-room dashboard client:                    *)
(*   frontend/src/app/war-room/page.tsx  (WarRoomDashboard)                *)
(*   hooks/useSimulation                 (the fallback simulator)          *)
(*                                                                         *)
(* The dashboard is a React component.  Its useState cells are the         *)
(* variables below; every socket callback, timer callback, click handler   *)
(* and promise continuation is one action.  React re-runs the effects of   *)
(* useSimulation in a later task than the handler that changed their       *)
(* dependencies: that task is the action Commit.                           *)
(*                                                                         *)
(* Numbers: rates are kept in tenths of a percent (97.5 % is 975),         *)
(* latencies in milliseconds, Date.now() as a small integer clock.         *)
(***************************************************************************)
EXTENDS Integers, Sequences, FiniteSets, TLC

\* ------------------------------------------------------------------ bounds

\* Dashboard instances ever mounted (the first mount included).
MaxMounts == 2
\* Clock readings 0..MaxClock.
MaxClock == 1
\* Handler executions counted by the bounded specifications.
MaxSteps == 5
\* Drift ticks in the specification of the drift generator.
MaxTicks == 3

\* --------------------------------------------------------- program constants

\* prev.slice(-100) in addSystemLog / addAgentLog
LogKeep == 100
\* prev.slice(0, 49) in the intervention case of onmessage
LedgerKeep == 49
\* .slice(0, 50) in the approval_required case of onmessage
QueueCap == 50
\* bank.weight || 25
DefaultWeight == 25

\* ------------------------------------------------------------------ helpers

\* An optional value (a field that may be undefined): <<>> or <<x>>.
None == <<>>
Some(x) == <<x>>

Min(a, b) == IF a < b THEN a ELSE b
Max(a, b) == IF a > b THEN a ELSE b

\* Array.prototype.slice(0, n)
SliceFront(s, n) == SubSeq(s, 1, Min(n, Len(s)))
\* Array.prototype.slice(-n), n > 0
SliceBack(s, n) == SubSeq(s, Max(1, Len(s) - n + 1), Len(s))
\* The members of a sequence
Range(s) == {s[i] : i \in 1..Len(s)}

\* ------------------------------------------------------------- data domains

\* The narration cycle (useSimulation, `stages`).
stages == <<"observe", "reason", "decide", "act", "learn">>

\* thoughtMessages: per stage, the <<type, content>> pairs to draw from.
thoughtMessages ==
  [observe |-> << <<"thought", "Scanning payment infrastructure...">>,
                  <<"prompt", "[Gemini] Analyze current metrics">>,
                  <<"response", "[Gemini] Metrics within normal parameters">>,
                  <<"thought", "Collected 50 transactions, 0 anomalies detected">> >>,
   reason  |-> << <<"thought", "Analyzing patterns and forming hypotheses...">>,
                  <<"prompt", "[Gemini] Given error_rate=2.8%, what is the likely cause?">>,
                  <<"response", "[Gemini] Normal variance. Recommend continued monitoring.">>,
                  <<"thought", "Hypothesis: System operating normally, risk score: 0.15">> >>,
   decide  |-> << <<"thought", "Evaluating intervention options...">>,
                  <<"thought", "Risk below threshold - no intervention needed">>,
                  <<"thought", "Decision: Continue monitoring">> >>,
   act     |-> << <<"action", "Executing: Maintain current configuration">>,
                  <<"thought", "No changes required">> >>,
   learn   |-> << <<"thought", "Recording observations for future reference">>,
                  <<"thought", "Pattern stored in memory">> >>]

\* An AgentLog entry.  Ids are kept as <<prefix, number>>: `sys_${Date.now()}`
\* is <<"sys", now>>, a server-chosen id is <<"srv", k>>.
LogEntry(id, ts, stage, type, content) ==
  [id |-> id, timestamp |-> ts, stage |-> stage, type |-> type, content |-> content]

\* data.data of a message that carries no data field: undefined.
Undefined == [undefined |-> TRUE]

\* The k-th thought the server sends (data of a "thought" message).
ServerThought(k) ==
  LogEntry(<<"srv", k>>, 0, IF k % 2 = 1 THEN "observe" ELSE "reason", "thought", "live thought")

\* Thought payloads a live message may carry.
ThoughtData == {ServerThought(1), ServerThought(2)}

\* Data of an "intervention" message: what the server sends, before the client
\* derives canRollback / rollbackAction.  The server's own canRollback and
\* rollbackAction (if it sends any) are overwritten by the spread-then-override.
ServerIntervention(k, action) ==
  [id |-> k, timestamp |-> 0, type |-> action, action |-> action,
   description |-> "do " \o action, success |-> TRUE, requires_approval |-> FALSE,
   approved_by |-> None, canRollback |-> FALSE, rollbackAction |-> None]

InterventionData ==
  {ServerIntervention(1, "switch_gateway"), ServerIntervention(2, "send_alert"),
   ServerIntervention(3, "adjust_retry_config")}

\* Data of an "approval_required" message.
ServerApproval(k, action, risk) ==
  [intervention_id |-> k,
   intervention |-> [type |-> action, action |-> action, description |-> "do " \o action],
   risk_score |-> risk, hypothesis |-> "h"]

\* Two arrivals share intervention_id 1 and differ in everything else.
ApprovalData ==
  {ServerApproval(1, "switch_gateway", 7), ServerApproval(1, "send_alert", 9),
   ServerApproval(2, "suppress_payment_method", 5)}

\* A MetricsSnapshot; rates in tenths of a percent.
Metrics(sr, lat, vol, er, ts) ==
  [success_rate |-> sr, avg_latency |-> lat, transaction_volume |-> vol,
   error_rate |-> er, timestamp |-> ts]

\* A BankHealthRecord; weight is optional (None when the field is absent).
Bank(name, status, sr, lat, weight) ==
  [name |-> name, status |-> status, success_rate |-> sr, avg_latency |-> lat,
   weight |-> weight, last_updated |-> 0]

\* useState initial values.
InitialMetrics == Metrics(975, 215, 12450, 25, 0)
InitialBanks ==
  << Bank("HDFC", "healthy", 982, 180, Some(40)), Bank("ICICI", "healthy", 978, 195, Some(30)),
     Bank("SBI", "healthy", 965, 220, Some(20)), Bank("AXIS", "healthy", 971, 205, Some(10)) >>

\* -------------------------------------------------------------------- state

\* Socket slots.  One more than the mounts: every instance owns at most one
\* socket or reconnect timer at a time, and wsRef may pin one closed socket.
SockIds == 1..(MaxMounts + 1)
Instances == 1..MaxMounts

VARIABLES
  now,               \* Date.now()
  mounted,           \* a WarRoomDashboard instance is mounted
  inst,              \* the number of the latest instance (instances are numbered from 1)
  socks,             \* socket slot -> [st: readyState, inst: the instance whose connectWebSocket made it]
  wsRef,             \* wsRef.current of the latest instance: a socket slot, or 0 for null
  timers,            \* instance -> pending setTimeout(connectWebSocket, 3000) of that instance
  metrics,           \* useState metrics
  banks,             \* useState banks
  agentLogs,         \* useState agentLogs (the Log Store)
  interventions,     \* useState interventions (the Intervention Ledger)
  currentStage,      \* useState currentStage
  pendingApprovals,  \* useState pendingApprovals (the Approval Queue)
  isConnected,       \* useState isConnected
  simulatorRunning,  \* useState simulatorRunning
  agentRunning,      \* useState agentRunning
  eff,               \* the dependency values the useSimulation effects last ran with
  narrTimer,         \* the narration setInterval is live
  driftTimer,        \* the metrics setInterval is live
  stageIndex,        \* `let stageIndex` of the live narration effect
  calls,             \* outbound fetches awaiting their result, in the order they were made
  activeView,        \* useState activeView: MonitoringView (with the timeline) or SimulationView
  rollingBack,       \* useState rollingBack of the mounted InterventionTimeline: None or Some(id)
  dialog,            \* the id of the record whose rollback dialog is open, or 0
  rollbacks,         \* onRollback calls awaiting their result, in the order they were made
  appended,          \* history: every entry appended to the Log Store, in order
  last,              \* history: <<name, input>> of the handler that ran last
  steps              \* history: handler executions counted by the bounded specifications

conn == <<mounted, inst, socks, wsRef, timers>>
data == <<metrics, banks, agentLogs, interventions, currentStage, pendingApprovals, appended>>
flags == <<isConnected, simulatorRunning, agentRunning>>
sim == <<eff, narrTimer, driftTimer, stageIndex>>
timeline == <<activeView, rollingBack, dialog, rollbacks>>
vars == <<now, conn, data, flags, sim, calls, timeline, last, steps>>

\* The first render of MonitoringView and its InterventionTimeline.
TimelineInit ==
  activeView = "monitoring" /\ rollingBack = None /\ dialog = 0 /\ rollbacks = <<>>

\* The dependency values of the useSimulation effects, as the state has them now.
Deps == [isConnected |-> isConnected, simulatorRunning |-> simulatorRunning,
         agentRunning |-> agentRunning]

NoSock == [st |-> "none", inst |-> 0]

\* A socket of the mounted instance: its callbacks reach live React state.
\* (A setState of an unmounted instance changes nothing.)
Live(s) == mounted /\ socks[s].inst = inst

\* A connection attempt: a socket that is connecting or open.
Attempts == {s \in SockIds : socks[s].st \in {"connecting", "open"}}

\* ------------------------------------------------------------ pure updaters

\* AddLogUpdater with a plausible slip: slice(0, 100) keeps the oldest entries.
AddLogUpdater_KeepsOldest(prev, log) == Append(SliceFront(prev, LogKeep), log)

\* addSystemLog / addAgentLog: (prev) => [...prev.slice(-100), log]
AddLogUpdater(prev, log) == Append(SliceBack(prev, LogKeep), log)

\* The entry addSystemLog builds.
SystemLog(content, t) == LogEntry(<<"sys", t>>, t, "system", "thought", content)

\* ["switch_gateway", "adjust_retry_config", "suppress_payment_method"]
ReversibleActions == {"switch_gateway", "adjust_retry_config", "suppress_payment_method"}

\* getRollbackAction: rollbacks[action]
getRollbackAction(action) ==
  CASE action = "switch_gateway" -> Some("Restore original routing weights")
    [] action = "adjust_retry_config" -> Some("Revert to previous retry settings")
    [] action = "suppress_payment_method" -> Some("Re-enable payment method")
    [] OTHER -> None

\* { ...data.data, canRollback: [...].includes(data.data.action), rollbackAction: getRollbackAction(...) }
DeriveIntervention(d) ==
  [d EXCEPT !.canRollback = (d.action \in ReversibleActions),
            !.rollbackAction = getRollbackAction(d.action)]

\* (prev) => [intervention, ...prev.slice(0, 49)]
RecordUpdater(prev, intervention) == <<intervention>> \o SliceFront(prev, LedgerKeep)

\* The record handleApprove builds (the same in its try and its catch branch):
\* the descriptor spread, then id, timestamp, type, action, ... overridden.
\* rollbackAction is whatever the descriptor carries: it has no such field.
ApprovedRecord(approval, t) ==
  [id |-> approval.intervention_id, timestamp |-> t, type |-> "switch_gateway",
   action |-> "switch_gateway", description |-> approval.intervention.description,
   success |-> TRUE, requires_approval |-> TRUE, approved_by |-> Some("human"),
   canRollback |-> TRUE, rollbackAction |-> None]

\* handleApprove: (prev) => [record, ...prev]
ApproveRecordUpdater(prev, record) == <<record>> \o prev

\* EnqueueUpdater with a plausible slip: the request is put at the tail.
EnqueueUpdater_AtTail(prev, d) ==
  IF \E i \in 1..Len(prev) : prev[i].intervention_id = d.intervention_id
  THEN prev
  ELSE SliceFront(prev \o <<d>>, QueueCap)

\* EnqueueUpdater with a plausible slip: the duplicate test compares whole
\* requests instead of their intervention_id.
EnqueueUpdater_WholeEntry(prev, d) ==
  IF \E i \in 1..Len(prev) : prev[i] = d
  THEN prev
  ELSE SliceFront(<<d>> \o prev, QueueCap)

\* approval_required: (prev) => exists ? prev : [data.data, ...prev].slice(0, 50)
EnqueueUpdater(prev, d) ==
  IF \E i \in 1..Len(prev) : prev[i].intervention_id = d.intervention_id
  THEN prev
  ELSE SliceFront(<<d>> \o prev, QueueCap)

\* ResolveUpdater with a plausible slip: the filter keeps what it should drop.
ResolveUpdater_Inverted(prev, id) == SelectSeq(prev, LAMBDA p : p.intervention_id = id)

\* (prev) => prev.filter((p) => p.intervention_id !== approval.intervention_id)
ResolveUpdater(prev, id) == SelectSeq(prev, LAMBDA p : p.intervention_id # id)

\* Math.max(lo, Math.min(hi, x))
Clamp(lo, hi, x) == Max(lo, Min(hi, x))

\* DriftMetrics with a plausible slip: error_rate is left unclamped.
DriftMetrics_ErrorUnclamped(prev, d, t) ==
  [success_rate |-> Max(850, Min(990, prev.success_rate + d.sr)),
   avg_latency |-> Max(100, Min(500, prev.avg_latency + d.lat)),
   transaction_volume |-> prev.transaction_volume + d.vol,
   error_rate |-> 1000 - prev.success_rate,
   timestamp |-> t]

\* The setMetrics updater of the drift tick.  d holds the three random terms:
\* d.sr = (Math.random() - 0.5) * 2 in tenths, d.lat = (Math.random() - 0.5) * 50,
\* d.vol = the change Math.floor leaves of (Math.random() - 0.5) * 500.
\* error_rate is computed from prev.success_rate.
DriftMetrics(prev, d, t) ==
  [success_rate |-> Clamp(850, 990, prev.success_rate + d.sr),
   avg_latency |-> Clamp(100, 500, prev.avg_latency + d.lat),
   transaction_volume |-> prev.transaction_volume + d.vol,
   error_rate |-> Clamp(10, 150, 1000 - prev.success_rate),
   timestamp |-> t]

\* bank.success_rate < 85 ? "down" : bank.success_rate < 92 ? "degraded" : "healthy"
BankStatus(success_rate) ==
  IF success_rate < 850 THEN "down"
  ELSE IF success_rate < 920 THEN "degraded" ELSE "healthy"

\* bank.weight || 25: an absent weight and the weight 0 are both falsy.
WeightOrDefault(weight) ==
  IF weight = None \/ weight = Some(0) THEN Some(DefaultWeight) ELSE weight

\* The per-bank map of the setBanks updater.  d.sr = (Math.random() - 0.5) * 1 in
\* tenths, d.lat = (Math.random() - 0.5) * 20.  status is computed from the
\* bank's success_rate before the perturbation.
DriftBank(bank, d, t) ==
  [bank EXCEPT !.success_rate = Clamp(800, 995, bank.success_rate + d.sr),
               !.avg_latency = Clamp(100, 400, bank.avg_latency + d.lat),
               !.status = BankStatus(bank.success_rate),
               !.last_updated = t,
               !.weight = WeightOrDefault(bank.weight)]

\* prev.map(...) with one pair of random terms per bank.
DriftBanks(prev, ds, t) == [i \in 1..Len(prev) |-> DriftBank(prev[i], ds[i], t)]

\* The random terms a specification lets a drift tick draw: the extremes of
\* each range ((Math.random() - 0.5) * k lies in [-k/2, k/2)).
MetricDeltas ==
  {[sr |-> -10, lat |-> -25, vol |-> -250], [sr |-> -10, lat |-> 24, vol |-> 249],
   [sr |-> 9, lat |-> -25, vol |-> 249], [sr |-> 9, lat |-> 24, vol |-> -250]}
BankDeltas == [sr : {-5, 4}, lat : {-10, 9}]
\* One draw only, for the specifications that are not about the drift itself.
MetricDeltasOne == {[sr |-> -10, lat |-> 24, vol |-> 249]}
BankDeltasOne == {[sr |-> -5, lat |-> 9]}

\* ----------------------------------------------------------- action pieces

\* addAgentLog(log) / addSystemLog: the Log Store and its history.
AddLog(log) ==
  /\ agentLogs' = AddLogUpdater(agentLogs, log)
  /\ appended' = Append(appended, log)

\* The lowest socket slot that holds no socket and that wsRef does not name.
FreeSock == CHOOSE s \in SockIds :
  /\ socks[s].st \in {"none", "closed"} /\ s # wsRef
  /\ \A t \in SockIds : (socks[t].st \in {"none", "closed"} /\ t # wsRef) => s <= t

\* connectWebSocket run by instance i (cur: i is the mounted instance, whose
\* wsRef the model keeps): new WebSocket(...); wsRef.current = ws.  The closed
\* socket the ref named before is garbage once the ref leaves it.
Connected(sk, i, cur) ==
  LET kept == [t \in SockIds |-> IF cur /\ t = wsRef /\ sk[t].st = "closed" THEN NoSock ELSE sk[t]]
  IN [kept EXCEPT ![FreeSock] = [st |-> "connecting", inst |-> i]]

RemoveAt(s, k) == SubSeq(s, 1, k - 1) \o SubSeq(s, k + 1, Len(s))

\* The onRollback calls in flight once the timeline that made them is unmounted:
\* they go on, and their setRollingBack reaches no mounted component.
Orphaned(rb) == [i \in 1..Len(rb) |-> [rb[i] EXCEPT !.live = FALSE]]

\* ------------------------------------------------------------------ actions
\* Every action leaves `steps` to the specification that uses it.

\* ws.onopen
OnOpen(s) ==
  /\ socks[s].st = "connecting"
  /\ socks' = [socks EXCEPT ![s].st = "open"]
  /\ IF Live(s)
     THEN /\ isConnected' = TRUE
          /\ AddLog(SystemLog("Connected to backend WebSocket", now))
     ELSE UNCHANGED <<isConnected, agentLogs, appended>>
  /\ last' = <<"OnOpen", s>>
  /\ UNCHANGED timeline
  /\ UNCHANGED <<now, mounted, inst, wsRef, timers, metrics, banks, interventions,
                 currentStage, pendingApprovals, simulatorRunning, agentRunning, sim, calls>>

\* OnClose with a plausible slip: an attempt that never opened is not retried.
OnClose_GivesUp(s) ==
  /\ socks[s].st \in {"connecting", "open", "closing"}
  /\ socks' = [socks EXCEPT ![s] = IF s = wsRef THEN [@ EXCEPT !.st = "closed"] ELSE NoSock]
  /\ isConnected' = IF Live(s) THEN FALSE ELSE isConnected
  /\ timers' = IF socks[s].st = "connecting" THEN timers
               ELSE [timers EXCEPT ![socks[s].inst] = @ + 1]
  /\ last' = <<"OnClose", s>>
  /\ UNCHANGED timeline
  /\ UNCHANGED <<now, mounted, inst, wsRef, data, simulatorRunning, agentRunning, sim, calls>>

\* ws.onclose: the server closed, the transport failed, or close() completed.
OnClose(s) ==
  /\ socks[s].st \in {"connecting", "open", "closing"}
  /\ socks' = [socks EXCEPT ![s] = IF s = wsRef THEN [@ EXCEPT !.st = "closed"] ELSE NoSock]
  /\ isConnected' = IF Live(s) THEN FALSE ELSE isConnected
  /\ timers' = [timers EXCEPT ![socks[s].inst] = @ + 1]
  /\ last' = <<"OnClose", s>>
  /\ UNCHANGED timeline
  /\ UNCHANGED <<now, mounted, inst, wsRef, data, simulatorRunning, agentRunning, sim, calls>>

\* The reconnect timeout of instance i fires: connectWebSocket().
ReconnectFire(i) ==
  /\ timers[i] > 0
  /\ timers' = [timers EXCEPT ![i] = @ - 1]
  /\ socks' = Connected(socks, i, mounted /\ i = inst)
  /\ wsRef' = IF mounted /\ i = inst THEN FreeSock ELSE wsRef
  /\ last' = <<"ReconnectFire", i>>
  /\ UNCHANGED timeline
  /\ UNCHANGED <<now, mounted, inst, data, flags, sim, calls>>

\* onmessage, case "thought".  With data.data undefined, addAgentLog(undefined)
\* has run when data.data.stage throws.
OnMessageThought(s, d) ==
  /\ socks[s].st = "open" /\ Live(s)
  /\ AddLog(d)
  /\ currentStage' = IF d = Undefined THEN currentStage ELSE d.stage
  /\ last' = <<"OnMessageThought", d>>
  /\ UNCHANGED timeline
  /\ UNCHANGED <<now, conn, metrics, banks, interventions, pendingApprovals, flags, sim, calls>>

\* onmessage, case "metrics"
OnMessageMetrics(s, d) ==
  /\ socks[s].st = "open" /\ Live(s)
  /\ metrics' = d
  /\ last' = <<"OnMessageMetrics", d>>
  /\ UNCHANGED timeline
  /\ UNCHANGED <<now, conn, banks, agentLogs, appended, interventions, currentStage,
                 pendingApprovals, flags, sim, calls>>

\* onmessage, case "banks"
OnMessageBanks(s, d) ==
  /\ socks[s].st = "open" /\ Live(s)
  /\ banks' = d
  /\ last' = <<"OnMessageBanks", d>>
  /\ UNCHANGED timeline
  /\ UNCHANGED <<now, conn, metrics, agentLogs, appended, interventions, currentStage,
                 pendingApprovals, flags, sim, calls>>

\* OnMessageIntervention with a plausible slip: the stage is set as for a thought.
OnMessageIntervention_SetsStage(s, d) ==
  /\ socks[s].st = "open" /\ Live(s)
  /\ IF d = Undefined
     THEN UNCHANGED <<interventions, agentLogs, appended>>
     ELSE /\ interventions' = RecordUpdater(interventions, DeriveIntervention(d))
          /\ AddLog(LogEntry(<<"action", now>>, now, "act", "action",
                             "Executed: " \o d.description))
  /\ currentStage' = "act"
  /\ last' = <<"OnMessageIntervention", d>>
  /\ UNCHANGED timeline
  /\ UNCHANGED <<now, conn, metrics, banks, pendingApprovals, flags, sim, calls>>

\* onmessage, case "intervention".  With data.data undefined, data.data.action
\* throws while the record is being built, before any set-state call.
OnMessageIntervention(s, d) ==
  /\ socks[s].st = "open" /\ Live(s)
  /\ IF d = Undefined
     THEN UNCHANGED <<interventions, agentLogs, appended>>
     ELSE /\ interventions' = RecordUpdater(interventions, DeriveIntervention(d))
          /\ AddLog(LogEntry(<<"action", now>>, now, "act", "action",
                             "Executed: " \o d.description))
  /\ last' = <<"OnMessageIntervention", d>>
  /\ UNCHANGED timeline
  /\ UNCHANGED <<now, conn, metrics, banks, currentStage, pendingApprovals, flags, sim, calls>>

\* onmessage, case "approval_required"
OnMessageApproval(s, d) ==
  /\ socks[s].st = "open" /\ Live(s)
  /\ pendingApprovals' = EnqueueUpdater(pendingApprovals, d)
  /\ last' = <<"OnMessageApproval", d>>
  /\ UNCHANGED timeline
  /\ UNCHANGED <<now, conn, metrics, banks, agentLogs, appended, interventions, currentStage,
                 flags, sim, calls>>

\* onmessage with a payload JSON.parse rejects: the handler throws at its first
\* statement.
OnMessageUnparseable(s) ==
  /\ socks[s].st = "open" /\ Live(s)
  /\ last' = <<"OnMessageUnparseable", 0>>
  /\ UNCHANGED <<now, conn, data, flags, sim, calls, timeline>>

\* onmessage with a type no case matches
OnMessageOther(s) ==
  /\ socks[s].st = "open" /\ Live(s)
  /\ last' = <<"OnMessageOther", 0>>
  /\ UNCHANGED timeline
  /\ UNCHANGED <<now, conn, data, flags, sim, calls>>

\* useEffect(() => { connectWebSocket(); return () => wsRef.current?.close(); }):
\* the cleanup, with the cleanups of useSimulation.  The instance's state is
\* gone with it; the model puts the useState cells back to their initial values.
\* Fetches still pending resolve into set-state calls of the dead instance.
Unmount ==
  /\ mounted
  /\ mounted' = FALSE
  /\ socks' = IF wsRef = 0 THEN socks
              ELSE [socks EXCEPT ![wsRef] =
                      IF @.st \in {"connecting", "open"} THEN [@ EXCEPT !.st = "closing"]
                      ELSE IF @.st = "closed" THEN NoSock ELSE @]
  /\ wsRef' = 0
  /\ metrics' = InitialMetrics /\ banks' = InitialBanks
  /\ agentLogs' = <<>> /\ appended' = <<>> /\ interventions' = <<>>
  /\ currentStage' = "observe" /\ pendingApprovals' = <<>>
  /\ isConnected' = FALSE /\ simulatorRunning' = FALSE /\ agentRunning' = TRUE
  /\ eff' = [isConnected |-> FALSE, simulatorRunning |-> FALSE, agentRunning |-> TRUE]
  /\ narrTimer' = FALSE /\ driftTimer' = FALSE /\ stageIndex' = 0
  /\ calls' = <<>>
  /\ last' = <<"Unmount", 0>>
  /\ activeView' = "monitoring" /\ rollingBack' = None /\ dialog' = 0
  /\ rollbacks' = Orphaned(rollbacks)
  /\ UNCHANGED <<now, inst, timers>>

\* A new instance mounts: first render with the useState initial values, then
\* its effects: connectWebSocket(), and the metrics interval (isConnected is false).
Mount ==
  /\ ~mounted /\ inst < MaxMounts
  /\ mounted' = TRUE
  /\ inst' = inst + 1
  /\ socks' = [socks EXCEPT ![FreeSock] = [st |-> "connecting", inst |-> inst + 1]]
  /\ wsRef' = FreeSock
  /\ driftTimer' = TRUE
  /\ last' = <<"Mount", 0>>
  /\ UNCHANGED timeline
  /\ UNCHANGED <<now, timers, data, flags, eff, narrTimer, stageIndex, calls>>

\* Commit with a plausible slip: the metrics effect starts its interval without
\* looking at isConnected.
Commit_DriftAlways ==
  /\ mounted /\ eff # Deps
  /\ eff' = Deps
  /\ narrTimer' = (~isConnected /\ simulatorRunning)
  /\ stageIndex' = 0
  /\ driftTimer' = TRUE
  /\ last' = <<"Commit", 0>>
  /\ UNCHANGED timeline
  /\ UNCHANGED <<now, conn, data, flags, calls>>

\* React re-renders after a state change and re-runs the effects of
\* useSimulation whose dependencies changed: cleanup, then the effect body.
Commit ==
  /\ mounted /\ eff # Deps
  /\ eff' = Deps
  /\ narrTimer' = (~isConnected /\ simulatorRunning)
  /\ stageIndex' = 0
  /\ driftTimer' = IF eff.isConnected # isConnected THEN ~isConnected ELSE driftTimer
  /\ last' = <<"Commit", 0>>
  /\ UNCHANGED timeline
  /\ UNCHANGED <<now, conn, data, flags, calls>>

\* The narration interval fires.  agentRunning is the value the effect closed over.
NarrationTick(m) ==
  /\ narrTimer
  /\ last' = <<"NarrationTick", m>>
  /\ UNCHANGED timeline
  /\ IF ~eff.agentRunning
     THEN UNCHANGED <<agentLogs, appended, currentStage, stageIndex>>
     ELSE LET stage == stages[stageIndex + 1]
              messages == thoughtMessages[stage]
              msg == messages[(m % Len(messages)) + 1]
          IN /\ AddLog(LogEntry(<<"demo", now>>, now, stage, msg[1], msg[2]))
             /\ currentStage' = stage
             /\ stageIndex' = (stageIndex + 1) % Len(stages)
  /\ UNCHANGED <<now, conn, metrics, banks, interventions, pendingApprovals, flags,
                 eff, narrTimer, driftTimer, calls>>

\* The metrics interval fires.
DriftTick(d, ds) ==
  /\ driftTimer
  /\ metrics' = DriftMetrics(metrics, d, now)
  /\ banks' = DriftBanks(banks, ds, now)
  /\ last' = <<"DriftTick", 0>>
  /\ UNCHANGED timeline
  /\ UNCHANGED <<now, conn, agentLogs, appended, interventions, currentStage, pendingApprovals,
                 flags, sim, calls>>

\* toggleSimulator
ToggleSimulator ==
  /\ mounted
  /\ simulatorRunning' = ~simulatorRunning
  /\ last' = <<"ToggleSimulator", 0>>
  /\ UNCHANGED timeline
  /\ UNCHANGED <<now, conn, data, isConnected, agentRunning, sim, calls>>

\* onToggleRunning
ToggleAgent ==
  /\ mounted
  /\ agentRunning' = ~agentRunning
  /\ last' = <<"ToggleAgent", 0>>
  /\ UNCHANGED timeline
  /\ UNCHANGED <<now, conn, data, isConnected, simulatorRunning, sim, calls>>

\* Date.now() moves on.
ClockTick ==
  /\ now < MaxClock
  /\ now' = now + 1
  /\ last' = <<"ClockTick", 0>>
  /\ UNCHANGED timeline
  /\ UNCHANGED <<conn, data, flags, sim, calls>>

\* An outbound fetch awaiting its result.
Call(kind, arg) == [kind |-> kind, arg |-> arg]

\* handleApprove up to its await: the approve fetch is made.
ApproveStart(a) ==
  /\ mounted
  /\ \E i \in 1..Len(pendingApprovals) : pendingApprovals[i] = a
  /\ calls' = Append(calls, Call("approve", a))
  /\ last' = <<"ApproveStart", a>>
  /\ UNCHANGED timeline
  /\ UNCHANGED <<now, conn, data, flags, sim>>

\* ApproveDone with a plausible slip: the catch branch records nothing.
ApproveDone_CatchRecordsNothing(k, ok) ==
  /\ k \in 1..Len(calls) /\ calls[k].kind = "approve"
  /\ LET approval == calls[k].arg
     IN /\ IF ok
           THEN /\ AddLog(LogEntry(<<"approved", now>>, now, "act", "action",
                                   "Approved: " \o approval.intervention.description))
                /\ interventions' = ApproveRecordUpdater(interventions, ApprovedRecord(approval, now))
           ELSE UNCHANGED <<agentLogs, appended, interventions>>
        /\ pendingApprovals' = ResolveUpdater(pendingApprovals, approval.intervention_id)
        /\ last' = <<IF ok THEN "ApproveDone" ELSE "ApproveFailed", approval>>
        /\ UNCHANGED timeline
  /\ calls' = RemoveAt(calls, k)
  /\ UNCHANGED <<now, conn, metrics, banks, currentStage, flags, sim>>

\* handleApprove after its await.  ok: the fetch resolved (whatever the HTTP
\* status); otherwise it rejected and the catch branch runs.
ApproveDone(k, ok) ==
  /\ k \in 1..Len(calls) /\ calls[k].kind = "approve"
  /\ LET approval == calls[k].arg
     IN /\ IF ok
           THEN AddLog(LogEntry(<<"approved", now>>, now, "act", "action",
                                "Approved: " \o approval.intervention.description))
           ELSE UNCHANGED <<agentLogs, appended>>
        /\ interventions' = ApproveRecordUpdater(interventions, ApprovedRecord(approval, now))
        /\ pendingApprovals' = ResolveUpdater(pendingApprovals, approval.intervention_id)
        /\ last' = <<IF ok THEN "ApproveDone" ELSE "ApproveFailed", approval>>
        /\ UNCHANGED timeline
  /\ calls' = RemoveAt(calls, k)
  /\ UNCHANGED <<now, conn, metrics, banks, currentStage, flags, sim>>

\* handleReject up to its await.
RejectStart(a) ==
  /\ mounted
  /\ \E i \in 1..Len(pendingApprovals) : pendingApprovals[i] = a
  /\ calls' = Append(calls, Call("reject", a))
  /\ last' = <<"RejectStart", a>>
  /\ UNCHANGED timeline
  /\ UNCHANGED <<now, conn, data, flags, sim>>

\* handleReject after its await: the same whether the fetch resolved or rejected.
RejectDone(k) ==
  /\ k \in 1..Len(calls) /\ calls[k].kind = "reject"
  /\ pendingApprovals' = ResolveUpdater(pendingApprovals, calls[k].arg.intervention_id)
  /\ last' = <<"RejectDone", calls[k].arg>>
  /\ UNCHANGED timeline
  /\ calls' = RemoveAt(calls, k)
  /\ UNCHANGED <<now, conn, metrics, banks, agentLogs, appended, interventions, currentStage,
                 flags, sim>>

\* ApproveAll with a plausible slip: the entry at the head of the queue is skipped.
ApproveAll_SkipsHead ==
  /\ mounted /\ pendingApprovals # <<>>
  /\ calls' = calls \o [i \in 1..(Len(pendingApprovals) - 1) |->
                          Call("approve", pendingApprovals[i + 1])]
  /\ last' = <<"ApproveAll", 0>>
  /\ UNCHANGED timeline
  /\ UNCHANGED <<now, conn, data, flags, sim>>

\* handleApproveAll: pendingApprovals.forEach(handleApprove)
ApproveAll ==
  /\ mounted /\ pendingApprovals # <<>>
  /\ calls' = calls \o [i \in 1..Len(pendingApprovals) |-> Call("approve", pendingApprovals[i])]
  /\ last' = <<"ApproveAll", 0>>
  /\ UNCHANGED timeline
  /\ UNCHANGED <<now, conn, data, flags, sim>>

\* RejectAll with a plausible slip: one reject call per entry is made as well.
RejectAll_CallsPerEntry ==
  /\ mounted
  /\ pendingApprovals' = <<>>
  /\ calls' = calls \o [i \in 1..Len(pendingApprovals) |-> Call("reject", pendingApprovals[i])]
  /\ last' = <<"RejectAll", 0>>
  /\ UNCHANGED timeline
  /\ UNCHANGED <<now, conn, metrics, banks, agentLogs, appended, interventions, currentStage,
                 flags, sim>>

\* handleRejectAll: setPendingApprovals([])
RejectAll ==
  /\ mounted
  /\ pendingApprovals' = <<>>
  /\ last' = <<"RejectAll", 0>>
  /\ UNCHANGED timeline
  /\ UNCHANGED <<now, conn, metrics, banks, agentLogs, appended, interventions, currentStage,
                 flags, sim, calls>>

\* triggerScenario up to its await.
TriggerScenario(name) ==
  /\ mounted
  /\ AddLog(SystemLog("Injecting scenario: " \o name, now))
  /\ calls' = Append(calls, Call("scenario", name))
  /\ last' = <<"TriggerScenario", name>>
  /\ UNCHANGED timeline
  /\ UNCHANGED <<now, conn, metrics, banks, interventions, currentStage, pendingApprovals,
                 flags, sim>>

\* ScenarioDone with a plausible slip: a rejected fetch is tried again.
ScenarioDone_Retries(k, outcome) ==
  /\ k \in 1..Len(calls) /\ calls[k].kind = "scenario"
  /\ AddLog(SystemLog(CASE outcome = "ok" -> "Scenario applied"
                        [] outcome = "status" -> "Failed to apply scenario"
                        [] OTHER -> "Error triggering scenario", now))
  /\ calls' = IF outcome = "error" THEN Append(RemoveAt(calls, k), calls[k])
              ELSE RemoveAt(calls, k)
  /\ last' = <<"ScenarioDone", outcome>>
  /\ UNCHANGED timeline
  /\ UNCHANGED <<now, conn, metrics, banks, interventions, currentStage, pendingApprovals,
                 flags, sim>>

\* triggerScenario after its await: response.ok, a non-2xx response, or a rejected fetch.
ScenarioDone(k, outcome) ==
  /\ k \in 1..Len(calls) /\ calls[k].kind = "scenario"
  /\ AddLog(SystemLog(CASE outcome = "ok" -> "Scenario applied"
                        [] outcome = "status" -> "Failed to apply scenario"
                        [] OTHER -> "Error triggering scenario", now))
  /\ calls' = RemoveAt(calls, k)
  /\ last' = <<"ScenarioDone", outcome>>
  /\ UNCHANGED timeline
  /\ UNCHANGED <<now, conn, metrics, banks, interventions, currentStage, pendingApprovals,
                 flags, sim>>

\* onForceObserve: addSystemLog("Observation forced.")
ForceObserve ==
  /\ mounted
  /\ AddLog(SystemLog("Observation forced.", now))
  /\ last' = <<"ForceObserve", 0>>
  /\ UNCHANGED timeline
  /\ UNCHANGED <<now, conn, metrics, banks, interventions, currentStage, pendingApprovals,
                 flags, sim, calls>>

\* The dashboard's handlers leave the timeline alone.
Dashboard == <<now, conn, data, flags, sim, calls>>

\* The Rollback button of a record (AlertDialogTrigger): shown when the record
\* has canRollback, disabled while rollingBack is not null.  One dialog is open
\* at a time.
OpenDialog(r) ==
  /\ mounted /\ activeView = "monitoring"
  /\ \E i \in 1..Len(interventions) : interventions[i] = r
  /\ r.canRollback /\ rollingBack = None /\ dialog = 0
  /\ dialog' = r.id
  /\ last' = <<"OpenDialog", r.id>>
  /\ UNCHANGED <<Dashboard, activeView, rollingBack, rollbacks>>

\* AlertDialogCancel
CancelDialog ==
  /\ dialog # 0
  /\ dialog' = 0
  /\ last' = <<"CancelDialog", 0>>
  /\ UNCHANGED <<Dashboard, activeView, rollingBack, rollbacks>>

\* AlertDialogAction: handleRollback up to its await; the dialog closes.
ConfirmRollback ==
  /\ dialog # 0
  /\ rollingBack' = Some(dialog)
  /\ rollbacks' = Append(rollbacks, [id |-> dialog, live |-> TRUE])
  /\ dialog' = 0
  /\ last' = <<"ConfirmRollback", dialog>>
  /\ UNCHANGED <<Dashboard, activeView>>

\* handleRollback after its await.  ok: the promise of onRollback was
\* fulfilled; otherwise it rejected, the await throws and the statement after
\* it does not run.
RollbackDone(k, ok) ==
  /\ k \in 1..Len(rollbacks)
  /\ rollbacks' = RemoveAt(rollbacks, k)
  /\ rollingBack' = IF ok /\ rollbacks[k].live THEN None ELSE rollingBack
  /\ last' = <<"RollbackDone", [id |-> rollbacks[k].id, live |-> rollbacks[k].live, ok |-> ok]>>
  /\ UNCHANGED <<Dashboard, activeView, dialog>>

\* A navigation item: setActiveView(v).  Leaving "monitoring" unmounts
\* MonitoringView and the timeline in it; coming back mounts new ones.
SetActiveView(v) ==
  /\ mounted
  /\ activeView' = v
  /\ IF activeView = "monitoring" /\ v # "monitoring"
     THEN rollingBack' = None /\ dialog' = 0 /\ rollbacks' = Orphaned(rollbacks)
     ELSE UNCHANGED <<rollingBack, dialog, rollbacks>>
  /\ last' = <<"SetActiveView", v>>
  /\ UNCHANGED Dashboard

\* ----------------------------------------------------------- specifications

\* The state after construction: the first instance has rendered and run its
\* effects (socket 1 connecting, the metrics interval live).
InitBase ==
  /\ now = 0
  /\ mounted = TRUE /\ inst = 1
  /\ socks = [s \in SockIds |-> IF s = 1 THEN [st |-> "connecting", inst |-> 1] ELSE NoSock]
  /\ wsRef = 1
  /\ timers = [i \in Instances |-> 0]
  /\ metrics = InitialMetrics /\ banks = InitialBanks
  /\ agentLogs = <<>> /\ appended = <<>> /\ interventions = <<>>
  /\ currentStage = "observe" /\ pendingApprovals = <<>>
  /\ isConnected = FALSE /\ simulatorRunning = FALSE /\ agentRunning = TRUE
  /\ eff = [isConnected |-> FALSE, simulatorRunning |-> FALSE, agentRunning |-> TRUE]
  /\ narrTimer = FALSE /\ driftTimer = TRUE /\ stageIndex = 0
  /\ calls = <<>>
  /\ last = <<"Mount", 0>>
  /\ TimelineInit
  /\ steps = 0

\* A handler execution a bounded specification counts.
Counted(A) == steps < MaxSteps /\ A /\ steps' = steps + 1
\* A handler execution that is not counted.
Uncounted(A) == A /\ UNCHANGED steps

\* The connection manager alone: sockets, reconnect timers, mounts.  The server
\* accepts a bounded number of connections; attempts may fail without bound.
NextConn ==
  \/ \E s \in SockIds : Counted(OnOpen(s))
  \/ \E s \in SockIds : Uncounted(OnClose(s))
  \/ \E i \in Instances : Uncounted(ReconnectFire(i))
  \/ Uncounted(Unmount)
  \/ Uncounted(Mount)
  \/ Uncounted(Commit)

\* setTimeout callbacks run: a pending reconnect timeout eventually fires.
SpecConn ==
  InitBase /\ [][NextConn]_vars /\ \A i \in Instances : WF_vars(Uncounted(ReconnectFire(i)))

\* The state in which the first instance's socket is open and the effects have
\* re-run, after the server has sent the messages that leave `lg` as the
\* sequence of all log appends, `led` as the ledger and `q` as the queue.
OpenState(lg, stage, led, q) ==
  /\ now = 0
  /\ mounted = TRUE /\ inst = 1
  /\ socks = [s \in SockIds |-> IF s = 1 THEN [st |-> "open", inst |-> 1] ELSE NoSock]
  /\ wsRef = 1
  /\ timers = [i \in Instances |-> 0]
  /\ metrics = InitialMetrics /\ banks = InitialBanks
  /\ agentLogs = SliceBack(lg, LogKeep + 1) /\ appended = lg
  /\ interventions = led
  /\ currentStage = stage /\ pendingApprovals = q
  /\ isConnected = TRUE /\ simulatorRunning = FALSE /\ agentRunning = TRUE
  /\ eff = [isConnected |-> TRUE, simulatorRunning |-> FALSE, agentRunning |-> TRUE]
  /\ narrTimer = FALSE /\ driftTimer = FALSE /\ stageIndex = 0
  /\ calls = <<>>
  /\ last = <<"Commit", 0>>
  /\ TimelineInit
  /\ steps = 0

\* The log line onopen appends.
ConnectedLog == SystemLog("Connected to backend WebSocket", 0)

\* The approval queue and its handlers, on an open connection.
InitQueue == OpenState(<<ConnectedLog>>, "observe", <<>>, <<>>)

NextQueue ==
  \/ \E s \in SockIds, d \in ApprovalData : Counted(OnMessageApproval(s, d))
  \/ \E a \in ApprovalData : Counted(ApproveStart(a))
  \/ \E k \in 1..MaxSteps, ok \in BOOLEAN : Counted(ApproveDone(k, ok))
  \/ \E a \in ApprovalData : Counted(RejectStart(a))
  \/ \E k \in 1..MaxSteps : Counted(RejectDone(k))
  \/ Counted(ApproveAll)
  \/ Counted(RejectAll)

SpecQueue == InitQueue /\ [][NextQueue]_vars

\* The ledger after the server has sent n interventions (ids 101..100+n), newest
\* first, and the log lines their arrival appended.
PrefilledLedger(n) ==
  [i \in 1..n |-> DeriveIntervention(ServerIntervention(100 + (n - i + 1), "send_alert"))]
ExecutedLogs(n) ==
  [i \in 1..n |-> LogEntry(<<"action", 0>>, 0, "act", "action", "Executed: do send_alert")]

\* The ledger and everything that records to it, on an open connection, with
\* the ledger empty or just below or at its capacity.
InitLedger ==
  \E n \in {0, LedgerKeep - 1, LedgerKeep, LedgerKeep + 1} :
    OpenState(<<ConnectedLog>> \o ExecutedLogs(n), "observe", PrefilledLedger(n), <<>>)

NextLedger ==
  \/ \E s \in SockIds, d \in InterventionData : Counted(OnMessageIntervention(s, d))
  \/ \E s \in SockIds, d \in ApprovalData : Counted(OnMessageApproval(s, d))
  \/ \E a \in ApprovalData : Counted(ApproveStart(a))
  \/ \E k \in 1..MaxSteps, ok \in BOOLEAN : Counted(ApproveDone(k, ok))

SpecLedger == InitLedger /\ [][NextLedger]_vars

\* The first n thoughts the server sent before the specification starts.
PrefilledThoughts(n) == [i \in 1..n |-> ServerThought(i + 2)]

\* The request and the scenario whose calls are pending when SpecLog starts.
PendingApproval == ServerApproval(2, "suppress_payment_method", 5)

\* The Log Store and everything that appends to it.  The specification starts in
\* the middle of a session: the connection opened, the server sent n thoughts
\* and one approval request, the operator clicked Approve, triggered a
\* scenario and switched the simulator on, then the connection closed and the
\* effects re-ran.  n leaves the store empty of thoughts, just below its window,
\* or full.
InitLog ==
  \E n \in {0, LogKeep - 3, LogKeep - 1} :
    /\ now = 0
    /\ mounted = TRUE /\ inst = 1
    /\ socks = [s \in SockIds |-> IF s = 1 THEN [st |-> "closed", inst |-> 1] ELSE NoSock]
    /\ wsRef = 1
    /\ timers = [i \in Instances |-> IF i = 1 THEN 1 ELSE 0]
    /\ metrics = InitialMetrics /\ banks = InitialBanks
    /\ appended = <<ConnectedLog>> \o PrefilledThoughts(n)
                    \o <<SystemLog("Injecting scenario: chaos", 0)>>
    /\ agentLogs = appended
    /\ interventions = <<>>
    /\ currentStage = (IF n = 0 THEN "observe" ELSE ServerThought(n + 2).stage)
    /\ pendingApprovals = <<PendingApproval>>
    /\ isConnected = FALSE /\ simulatorRunning = TRUE /\ agentRunning = TRUE
    /\ eff = [isConnected |-> FALSE, simulatorRunning |-> TRUE, agentRunning |-> TRUE]
    /\ narrTimer = TRUE /\ driftTimer = TRUE /\ stageIndex = 0
    /\ calls = <<Call("approve", PendingApproval), Call("scenario", "chaos")>>
    /\ last = <<"Commit", 0>>
    /\ TimelineInit
    /\ steps = 0

NextLog ==
  \/ \E m \in 0..1 : Counted(NarrationTick(m))
  \/ \E k \in 1..2, ok \in BOOLEAN : Counted(ApproveDone(k, ok))
  \/ \E k \in 1..2, o \in {"ok", "status", "error"} : Counted(ScenarioDone(k, o))
  \/ Counted(ForceObserve)
  \/ \E i \in Instances : Counted(ReconnectFire(i))
  \/ \E s \in SockIds : Counted(OnOpen(s))
  \/ \E s \in SockIds : Counted(OnMessageThought(s, ServerThought(1)))
  \/ \E s \in SockIds : Counted(OnMessageIntervention(s, ServerIntervention(1, "switch_gateway")))
  \/ \E s \in SockIds : Counted(OnClose(s))
  \/ Counted(Commit)

SpecLog == InitLog /\ [][NextLog]_vars

\* The simulator and the connection state that switches it: the first
\* instance from its construction.
NextSim ==
  \/ \E s \in SockIds : Counted(OnOpen(s))
  \/ \E s \in SockIds : Counted(OnClose(s))
  \/ \E i \in Instances : Counted(ReconnectFire(i))
  \/ Counted(ToggleSimulator)
  \/ Counted(ToggleAgent)
  \/ Uncounted(Commit)
  \/ \E m \in 0..1 : Counted(NarrationTick(m))
  \/ \E d \in MetricDeltasOne, b \in BankDeltasOne :
       Counted(DriftTick(d, [i \in 1..Len(banks) |-> b]))

SpecSim == InitBase /\ [][NextSim]_vars

\* Snapshots the drift may start from: the initial ones, and ones the server
\* sent while the connection was open, inside and outside the simulator's ranges.
StartMetrics ==
  {InitialMetrics, Metrics(700, 900, 100, 300, 0), Metrics(1000, 50, 5, 0, 0)}
StartBanks ==
  {InitialBanks,
   << Bank("HDFC", "healthy", 852, 105, Some(0)), Bank("ICICI", "down", 1000, 450, None) >>,
   << Bank("SBI", "healthy", 700, 90, Some(40)), Bank("AXIS", "degraded", 921, 395, Some(10)) >>}

\* The drift generator: the connection has closed (its reconnect timeout is
\* pending), the effects have re-run, the metrics interval is live.
InitDrift ==
  /\ now = 0
  /\ mounted = TRUE /\ inst = 1
  /\ socks = [s \in SockIds |-> IF s = 1 THEN [st |-> "closed", inst |-> 1] ELSE NoSock]
  /\ wsRef = 1
  /\ timers = [i \in Instances |-> IF i = 1 THEN 1 ELSE 0]
  /\ metrics \in StartMetrics /\ banks \in StartBanks
  /\ agentLogs = <<ConnectedLog>> /\ appended = <<ConnectedLog>>
  /\ interventions = <<>>
  /\ currentStage = "observe" /\ pendingApprovals = <<>>
  /\ isConnected = FALSE /\ simulatorRunning = FALSE /\ agentRunning = TRUE
  /\ eff = [isConnected |-> FALSE, simulatorRunning |-> FALSE, agentRunning |-> TRUE]
  /\ narrTimer = FALSE /\ driftTimer = TRUE /\ stageIndex = 0
  /\ calls = <<>>
  /\ last = <<"Commit", 0>>
  /\ TimelineInit
  /\ steps = 0

\* Every bank takes the same pair of random terms within one tick.
NextDrift ==
  \E d \in MetricDeltas, b \in BankDeltas :
    /\ steps < MaxTicks
    /\ DriftTick(d, [i \in 1..Len(banks) |-> b])
    /\ steps' = steps + 1

SpecDrift == InitDrift /\ [][NextDrift]_vars

\* A request with an id no other request of the model carries.
FreshApproval == ServerApproval(4, "send_alert", 3)

\* Queues the server's messages have built: the newest request at the head.
StartQueues ==
  {<<ServerApproval(2, "suppress_payment_method", 5)>>,
   <<ServerApproval(2, "suppress_payment_method", 5), ServerApproval(1, "switch_gateway", 7)>>,
   <<ServerApproval(3, "adjust_retry_config", 6), ServerApproval(2, "suppress_payment_method", 5),
     ServerApproval(1, "switch_gateway", 7)>>}

\* Approve-all on a queue of one to three requests, on an open connection; a
\* request with a new id may arrive and single approves may be clicked meanwhile.
InitApproveAll ==
  \E q \in StartQueues : OpenState(<<ConnectedLog>>, "observe", <<>>, q)

NextApproveAll ==
  \/ Counted(ApproveAll)
  \/ \E k \in 1..Len(calls), ok \in BOOLEAN : Counted(ApproveDone(k, ok))
  \/ \E a \in Range(pendingApprovals) : Counted(ApproveStart(a))
  \/ \E s \in SockIds : Counted(OnMessageApproval(s, FreshApproval))

SpecApproveAll == InitApproveAll /\ [][NextApproveAll]_vars

\* The ledger after the server sent three interventions, two of them reversible.
StartLedger ==
  << DeriveIntervention(ServerIntervention(3, "adjust_retry_config")),
     DeriveIntervention(ServerIntervention(2, "send_alert")),
     DeriveIntervention(ServerIntervention(1, "switch_gateway")) >>

\* The timeline and its rollback triggers, on an open connection.
InitRollback ==
  OpenState(<<ConnectedLog>> \o ExecutedLogs(3), "observe", StartLedger, <<>>)

NextRollback ==
  \/ \E r \in Range(interventions) : Uncounted(OpenDialog(r))
  \/ Uncounted(CancelDialog)
  \/ Counted(ConfirmRollback)
  \/ \E k \in 1..Len(rollbacks), ok \in BOOLEAN : Counted(RollbackDone(k, ok))
  \/ \E v \in {"monitoring", "simulation"} : Counted(SetActiveView(v))

SpecRollback == InitRollback /\ [][NextRollback]_vars

\* The dispatcher on an open connection: well-formed messages, messages of a
\* recognized type without data, messages of no recognized type and payloads
\* that do not parse.
NextDispatch ==
  \/ \E s \in SockIds, d \in {ServerThought(1), Undefined} : Counted(OnMessageThought(s, d))
  \/ \E s \in SockIds, d \in {Metrics(700, 900, 100, 300, 0), Undefined} :
       Counted(OnMessageMetrics(s, d))
  \/ \E s \in SockIds, d \in {Undefined} : Counted(OnMessageBanks(s, d))
  \/ \E s \in SockIds, d \in {ServerIntervention(1, "switch_gateway"), Undefined} :
       Counted(OnMessageIntervention(s, d))
  \/ \E s \in SockIds : Counted(OnMessageApproval(s, FreshApproval))
  \/ \E s \in SockIds : Counted(OnMessageOther(s))
  \/ \E s \in SockIds : Counted(OnMessageUnparseable(s))

SpecDispatch == InitQueue /\ [][NextDispatch]_vars

\* The queue after the server has sent n requests (ids 101..100+n), newest first.
PrefilledQueue(n) == [i \in 1..n |-> ServerApproval(100 + (n - i + 1), "send_alert", 3)]

\* The approval queue empty, just below its capacity or at it, on an open
\* connection.
InitQueueFull ==
  \E n \in {0, QueueCap - 1, QueueCap} :
    OpenState(<<ConnectedLog>>, "observe", <<>>, PrefilledQueue(n))

\* Arrivals with new ids and with the id of the oldest prefilled request, and
\* the handlers that take entries out.
NextQueueFull ==
  \/ \E s \in SockIds, d \in ApprovalData \cup {ServerApproval(101, "switch_gateway", 1)} :
       Counted(OnMessageApproval(s, d))
  \/ \E a \in {pendingApprovals[i] : i \in 1..Min(1, Len(pendingApprovals))} :
       Counted(ApproveStart(a))
  \/ \E k \in 1..Len(calls), ok \in BOOLEAN : Counted(ApproveDone(k, ok))
  \/ \E a \in {pendingApprovals[i] : i \in 1..Min(1, Len(pendingApprovals))} :
       Counted(RejectStart(a))
  \/ \E k \in 1..Len(calls) : Counted(RejectDone(k))
  \/ Counted(RejectAll)

SpecQueueFull == InitQueueFull /\ [][NextQueueFull]_vars

\* Scenario triggers on an open connection, with other appends to the Log
\* Store in between.
NextScenario ==
  \/ \E name \in {"chaos", "spike"} : Counted(TriggerScenario(name))
  \/ \E k \in 1..Len(calls), o \in {"ok", "status", "error"} : Counted(ScenarioDone(k, o))
  \/ Counted(ForceObserve)
  \/ \E s \in SockIds : Counted(OnMessageThought(s, ServerThought(1)))

SpecScenario == InitQueue /\ [][NextScenario]_vars

\* The dispatcher on an open connection, one well-formed message at a time.
NextRoute ==
  \/ \E s \in SockIds, d \in ThoughtData : Counted(OnMessageThought(s, d))
  \/ \E s \in SockIds : Counted(OnMessageMetrics(s, Metrics(700, 900, 100, 300, 0)))
  \/ \E s \in SockIds : Counted(OnMessageBanks(s, <<Bank("HDFC", "down", 700, 90, Some(0))>>))
  \/ \E s \in SockIds : Counted(OnMessageIntervention(s, ServerIntervention(1, "switch_gateway")))
  \/ \E s \in SockIds : Counted(OnMessageApproval(s, FreshApproval))
  \/ \E s \in SockIds : Counted(OnMessageOther(s))

SpecRoute == InitQueue /\ [][NextRoute]_vars

\* The writers of client-made log ids on an open connection, with the clock
\* free to move between any two of them.
NextIds ==
  \/ Uncounted(ClockTick)
  \/ \E s \in SockIds, d \in InterventionData : Counted(OnMessageIntervention(s, d))
  \/ \E s \in SockIds, d \in ThoughtData : Counted(OnMessageThought(s, d))
  \/ Counted(ForceObserve)
  \/ \E name \in {"chaos"} : Counted(TriggerScenario(name))
  \/ \E k \in 1..Len(calls), o \in {"ok", "error"} : Counted(ScenarioDone(k, o))

SpecIds == InitQueue /\ [][NextIds]_vars

\* ------------------------------------------------------------------- claims

\* C9: at every moment at most one connection attempt (a socket that is
\* connecting or open) exists, across teardown and re-initialisation too.
C9_AtMostOneAttempt == Cardinality(Attempts) <= 1

\* Instance i has been mounted and owns no socket: its connection is closed.
Closed(i) == i <= inst /\ \A s \in SockIds : socks[s].inst # i \/ socks[s].st = "closed"
\* Instance i has a connection attempt under way.
Connecting(i) == \E s \in SockIds : socks[s].inst = i /\ socks[s].st = "connecting"

\* C10: every close sets the connection state to closed and schedules exactly
\* one reconnect (no other handler schedules or cancels one), and whenever an
\* instance's connection is closed a new attempt of that instance eventually
\* starts, however many attempts have failed before.
C10_ReconnectsForever ==
  /\ [][ IF last'[1] = "OnClose"
         THEN /\ timers' = [timers EXCEPT ![socks[last'[2]].inst] = @ + 1]
              /\ socks'[last'[2]].st \in {"closed", "none"}
              /\ (Live(last'[2]) => ~isConnected')
         ELSE \A i \in Instances : timers'[i] <= timers[i] ]_vars
  /\ \A i \in Instances : Closed(i) ~> Connecting(i)

\* C10 witness: a second attempt of the first instance has failed in turn and
\* its reconnect timeout is pending.
C10_Witness ==
  /\ last = <<"OnClose", 1>> /\ timers[1] = 1 /\ ~isConnected /\ Closed(1)
  /\ Len(appended) >= 1

\* No two entries of a queue share an intervention_id.
NoDupIds(q) == \A i, j \in 1..Len(q) : q[i].intervention_id = q[j].intervention_id => i = j
\* Intervention id x is queued in q.
Queued(q, x) == \E i \in 1..Len(q) : q[i].intervention_id = x

\* C2: the queue never holds two entries with one intervention_id; an
\* approval_required message whose id is already queued leaves the queue as it
\* was, and one whose id is not queued adds one entry (up to the capacity).
C2_QueueDedup ==
  /\ NoDupIds(pendingApprovals)
  /\ [][ /\ NoDupIds(pendingApprovals')
         /\ last'[1] = "OnMessageApproval" =>
              IF Queued(pendingApprovals, last'[2].intervention_id)
              THEN pendingApprovals' = pendingApprovals
              ELSE /\ Len(pendingApprovals') = Min(Len(pendingApprovals) + 1, QueueCap)
                   /\ Queued(pendingApprovals', last'[2].intervention_id) ]_vars

\* C2 witness: a second message with a queued id, and other contents, has just
\* arrived and the queue holds that id once, with the first arrival's contents.
C2_Witness ==
  /\ last[1] = "OnMessageApproval"
  /\ \E i \in 1..Len(pendingApprovals) :
       /\ pendingApprovals[i].intervention_id = last[2].intervention_id
       /\ pendingApprovals[i] # last[2]
  /\ Len(pendingApprovals) = 2

\* C3: the completion of an approve or a reject of intervention_id x removes the
\* entry with id x, if there is one, and leaves every other entry in place and
\* in order, whatever was interleaved while the call was pending.
C3_ResolveRemovesOnlyThat ==
  [][ last'[1] \in {"ApproveDone", "ApproveFailed", "RejectDone"} =>
        LET x == last'[2].intervention_id
        IN IF Queued(pendingApprovals, x)
           THEN \E i \in 1..Len(pendingApprovals) :
                  /\ pendingApprovals[i].intervention_id = x
                  /\ pendingApprovals' = RemoveAt(pendingApprovals, i)
           ELSE pendingApprovals' = pendingApprovals ]_vars

\* C3 witness: a reject has completed while another call is still pending, and
\* the other entry is still queued.
C3_Witness ==
  /\ last[1] = "RejectDone"
  /\ Len(pendingApprovals) = 1 /\ pendingApprovals[1].intervention_id # last[2].intervention_id
  /\ calls # <<>>

\* C5: every ledger record has canRollback exactly when its action is
\* reversible, and the rollbackAction mapped from its action.
C5_RollbackDerived ==
  \A i \in 1..Len(interventions) :
    /\ interventions[i].canRollback = (interventions[i].action \in ReversibleActions)
    /\ interventions[i].rollbackAction = getRollbackAction(interventions[i].action)

\* C4: after every operation that records to the ledger (an intervention
\* message, an approval) the ledger holds at most 50 records, newest first: the
\* new record, then the most recent of the records held before.
C4_LedgerKeepsNewest50 ==
  [][ last'[1] \in {"OnMessageIntervention", "ApproveDone", "ApproveFailed"} =>
        /\ Len(interventions') = Min(Len(interventions) + 1, LedgerKeep + 1)
        /\ interventions'[1].id =
             (IF last'[1] = "OnMessageIntervention" THEN last'[2].id ELSE last'[2].intervention_id)
        /\ Tail(interventions') = SliceFront(interventions, Len(interventions') - 1) ]_vars

\* C1: the Log Store holds at most 101 entries, and they are the most recently
\* appended ones, in the order in which they were appended.
C1_LogWindow ==
  /\ Len(agentLogs) <= LogKeep + 1
  /\ agentLogs = SubSeq(appended, Len(appended) - Len(agentLogs) + 1, Len(appended))
  /\ Len(agentLogs) = Min(Len(appended), LogKeep + 1)

\* C1 witness: more entries have been appended than the store keeps, the last
\* ones by the simulator, by an approval and by a system line.
C1_Witness ==
  /\ Len(appended) > LogKeep + 3
  /\ \E i, j, k \in (Len(agentLogs) - 2)..Len(agentLogs) :
       /\ agentLogs[i].id[1] = "demo"
       /\ agentLogs[j].id[1] = "approved"
       /\ agentLogs[k].id[1] = "sys"

\* C6: the commit that follows the connection becoming open leaves both
\* simulator timers cancelled, and while the connection stays open after it no
\* narration tick and no drift tick runs.
C6_TimersStopOnOpen ==
  [][ /\ (last'[1] = "Commit" /\ isConnected') => (~narrTimer' /\ ~driftTimer')
      /\ (isConnected /\ eff.isConnected) => last'[1] \notin {"NarrationTick", "DriftTick"} ]_vars

\* C6 witness: the narration had produced an entry before the connection opened;
\* the connection is open, the effects have re-run and both timers are off.
C6_Witness ==
  /\ isConnected /\ eff = Deps /\ simulatorRunning
  /\ ~narrTimer /\ ~driftTimer
  /\ \E i \in 1..Len(agentLogs) : agentLogs[i].id[1] = "demo"
  /\ last[1] = "Commit"

\* C7: after every drift tick the snapshot and every bank are inside the
\* simulator's ranges, whatever they were before.
C7_DriftBounded ==
  last[1] = "DriftTick" =>
    /\ metrics.success_rate >= 850 /\ metrics.success_rate <= 990
    /\ metrics.avg_latency >= 100 /\ metrics.avg_latency <= 500
    /\ metrics.error_rate >= 10 /\ metrics.error_rate <= 150
    /\ \A i \in 1..Len(banks) :
         /\ banks[i].success_rate >= 800 /\ banks[i].success_rate <= 995
         /\ banks[i].avg_latency >= 100 /\ banks[i].avg_latency <= 400

\* C7 witness: after several ticks from a snapshot outside the ranges the
\* values sit on the limits.
C7_Witness ==
  /\ last[1] = "DriftTick" /\ steps = MaxTicks /\ ~isConnected
  /\ metrics.success_rate = 850 /\ metrics.avg_latency = 500 /\ metrics.error_rate = 150
  /\ \E i \in 1..Len(banks) : banks[i].success_rate = 995 /\ banks[i].avg_latency = 400

\* C8: after every drift tick each bank's status is the threshold function of
\* the success_rate the bank has after the tick.
C8_StatusFromNewRate ==
  last[1] = "DriftTick" =>
    \A i \in 1..Len(banks) :
      banks[i].status = (IF banks[i].success_rate < 850 THEN "down"
                         ELSE IF banks[i].success_rate < 920 THEN "degraded" ELSE "healthy")

\* The entry onopen appended is the newest entry of the history: no narration
\* tick has appended since the connection last opened.
NoEntrySinceOpen ==
  /\ appended # <<>>
  /\ appended[Len(appended)].content = "Connected to backend WebSocket"

\* C11: with the simulator and agent execution enabled, the first narration
\* tick after the connection opened and closed again appends an entry of stage
\* observe with one of the four observe messages and sets the stage to observe.
C11_ResumeAtObserve ==
  [][ ( /\ last'[1] = "NarrationTick"
        /\ ~isConnected /\ simulatorRunning /\ agentRunning /\ eff.agentRunning
        /\ NoEntrySinceOpen )
      => /\ Len(appended') = Len(appended) + 1
         /\ appended'[Len(appended')].stage = "observe"
         /\ <<appended'[Len(appended')].type, appended'[Len(appended')].content>>
              \in Range(thoughtMessages.observe)
         /\ currentStage' = "observe" ]_vars

\* C12: every narration tick advances the cycle position by one (mod 5),
\* whether or not agent execution is enabled at that tick.
C12_TickAlwaysAdvances ==
  [][ last'[1] = "NarrationTick" => stageIndex' = (stageIndex + 1) % Len(stages) ]_vars

\* C13: approve-all makes one approve call per queued entry, in queue order,
\* and changes nothing else; every completion of an approve call adds one
\* ledger record for its entry and leaves no entry with that id queued; so
\* when no call is pending no approved entry is queued.
C13_ApproveAllDrains ==
  /\ (calls = <<>> =>
        \A i \in 1..Len(pendingApprovals), j \in 1..Len(interventions) :
          pendingApprovals[i].intervention_id # interventions[j].id)
  /\ [][ /\ last'[1] = "ApproveAll" =>
              /\ calls' = calls \o [i \in 1..Len(pendingApprovals) |->
                                      Call("approve", pendingApprovals[i])]
              /\ UNCHANGED <<pendingApprovals, interventions>>
         /\ last'[1] \in {"ApproveDone", "ApproveFailed"} =>
              /\ Len(calls') = Len(calls) - 1
              /\ Len(interventions') = Len(interventions) + 1
              /\ interventions'[1].id = last'[2].intervention_id
              /\ interventions'[1].approved_by = Some("human")
              /\ ~Queued(pendingApprovals', last'[2].intervention_id) ]_vars

\* C13 witness: approve-all ran on three entries, a new request arrived while
\* the calls were pending, all three calls have completed: three records, and
\* only the new request is queued.
C13_Witness ==
  /\ last[1] \in {"ApproveDone", "ApproveFailed"} /\ calls = <<>>
  /\ Len(interventions) = 3
  /\ pendingApprovals = <<FreshApproval>>

\* C14: when the approve call fails the ledger gets the approved record at its
\* head (success true, approved_by human, the entry's id and description), the
\* entry leaves the queue and the handler completes.
C14_FailedApproveStillRecorded ==
  [][ last'[1] = "ApproveFailed" =>
        /\ Len(interventions') = Len(interventions) + 1
        /\ Tail(interventions') = interventions
        /\ interventions'[1] =
             [id |-> last'[2].intervention_id, timestamp |-> now, type |-> "switch_gateway",
              action |-> "switch_gateway", description |-> last'[2].intervention.description,
              success |-> TRUE, requires_approval |-> TRUE, approved_by |-> Some("human"),
              canRollback |-> TRUE, rollbackAction |-> None]
        /\ ~Queued(pendingApprovals', last'[2].intervention_id)
        /\ Len(calls') = Len(calls) - 1 ]_vars

\* C14 witness: an approve call has failed; its record heads the ledger and the
\* other entry is still queued.
C14_Witness ==
  /\ last[1] = "ApproveFailed"
  /\ interventions # <<>> /\ interventions[1].id = last[2].intervention_id
  /\ interventions[1].success /\ interventions[1].approved_by = Some("human")
  /\ Len(pendingApprovals) = 1 /\ ~Queued(pendingApprovals, last[2].intervention_id)

C17_MalformedIgnored ==
  [][ ( \/ last'[1] = "OnMessageUnparseable"
        \/ /\ last'[1] \in {"OnMessageThought", "OnMessageMetrics", "OnMessageBanks",
                            "OnMessageIntervention"}
           /\ last'[2] = Undefined )
      => UNCHANGED <<metrics, banks, agentLogs, pendingApprovals, interventions,
                     currentStage>> ]_vars

\* C18: the queue never holds more than 50 entries, and an approval_required
\* message whose id is not queued puts its request at the head, followed by the
\* earlier entries in their order (as many as the capacity leaves room for).
C18_QueueCapHeadFirst ==
  /\ Len(pendingApprovals) <= QueueCap
  /\ [][ (last'[1] = "OnMessageApproval"
          /\ ~Queued(pendingApprovals, last'[2].intervention_id))
         => /\ pendingApprovals'[1] = last'[2]
            /\ Tail(pendingApprovals') = SliceFront(pendingApprovals, QueueCap - 1) ]_vars

\* C18 witness: a request with a new id arrived at a full queue: it is at the
\* head, the queue holds 50 entries and the oldest one is gone.
C18_Witness ==
  /\ last[1] = "OnMessageApproval"
  /\ Len(pendingApprovals) = QueueCap
  /\ pendingApprovals[1] = last[2]
  /\ pendingApprovals[2].intervention_id = 100 + QueueCap
  /\ ~Queued(pendingApprovals, 101)

\* C19: after every drift tick error_rate is 100 - success_rate of the
\* snapshot the tick produced, limited to [1, 15].
C19_ErrorRateFromNewRate ==
  last[1] = "DriftTick" =>
    metrics.error_rate = Max(10, Min(150, 1000 - metrics.success_rate))

\* C20: a drift tick leaves the weight of every bank that has one as it was,
\* 0 included, and gives the default 25 only to a bank without a weight.
C20_WeightKept ==
  [][ last'[1] = "DriftTick" =>
        /\ Len(banks') = Len(banks)
        /\ \A i \in 1..Len(banks) :
             banks'[i].weight = (IF banks[i].weight = None THEN Some(DefaultWeight)
                                 ELSE banks[i].weight) ]_vars

\* C21: while the simulator is disabled (and the effects have re-run since it
\* was) neither a narration tick nor a drift tick changes the snapshot, the
\* banks, the Log Store or the current stage.
C21_DisabledSimulatorIsIdle ==
  [][ (last'[1] \in {"NarrationTick", "DriftTick"} /\ ~simulatorRunning /\ eff = Deps)
      => UNCHANGED <<metrics, banks, agentLogs, currentStage>> ]_vars

\* C22: reject-all empties the queue, makes no outbound call and leaves the
\* ledger, the Log Store, the snapshot and the banks as they were.
C22_RejectAllOnlyEmptiesQueue ==
  [][ last'[1] = "RejectAll" =>
        /\ pendingApprovals' = <<>>
        /\ calls' = calls
        /\ UNCHANGED <<interventions, agentLogs, metrics, banks>> ]_vars

\* C22 witness: reject-all ran on a queue of two entries whose approve calls
\* are pending: the queue is empty, the two calls are the only ones.
C22_Witness ==
  /\ last[1] = "RejectAll" /\ pendingApprovals = <<>>
  /\ Len(calls) = 2 /\ calls[1].kind = "approve" /\ calls[2].kind = "approve"
  /\ calls[1].arg.intervention_id # calls[2].arg.intervention_id
  /\ interventions = <<>>

\* The entries of a log whose content is one of the lines in `lines`.
LinesIn(lg, lines) == {i \in 1..Len(lg) : lg[i].content \in lines}
\* The line triggerScenario appends before its request, and its outcome lines.
InjectLines == {"Injecting scenario: chaos", "Injecting scenario: spike"}
OutcomeLines == {"Scenario applied", "Failed to apply scenario", "Error triggering scenario"}

\* C23: a scenario trigger appends the injecting line and makes one request;
\* the completion of the request appends one outcome line (a different one for
\* success, a non-2xx response and a network failure) and makes no request;
\* neither changes other state; so every injecting line has one outcome line
\* or a pending request, never both and never more.
C23_ScenarioOneRequestOneOutcome ==
  /\ Cardinality(LinesIn(appended, InjectLines)) =
       Cardinality(LinesIn(appended, OutcomeLines)) + Len(calls)
  /\ [][ /\ last'[1] = "TriggerScenario" =>
              /\ calls' = Append(calls, Call("scenario", last'[2]))
              /\ appended' = Append(appended, SystemLog("Injecting scenario: " \o last'[2], now))
              /\ UNCHANGED <<metrics, banks, interventions, pendingApprovals, currentStage>>
         /\ last'[1] = "ScenarioDone" =>
              /\ Len(calls') = Len(calls) - 1
              /\ Len(appended') = Len(appended) + 1
              /\ appended'[Len(appended')].content =
                   (IF last'[2] = "ok" THEN "Scenario applied"
                    ELSE IF last'[2] = "status" THEN "Failed to apply scenario"
                    ELSE "Error triggering scenario")
              /\ UNCHANGED <<metrics, banks, interventions, pendingApprovals, currentStage>> ]_vars

\* C23 witness: two triggers have completed, one with a non-2xx response and
\* one with a network failure: two injecting lines, the two outcome lines, no
\* request pending.
C23_Witness ==
  /\ last = <<"ScenarioDone", "error">> /\ calls = <<>>
  /\ Cardinality(LinesIn(appended, InjectLines)) = 2
  /\ \E i, j \in 1..Len(appended) :
       /\ i < j /\ appended[i].content = "Failed to apply scenario"
       /\ appended[j].content = "Error triggering scenario"

\* C24: a thought message changes only the Log Store and the stage, a metrics
\* message only the snapshot (which becomes its data), a banks message only the
\* banks (which become its data), an approval_required message only the queue,
\* an intervention message only the ledger and the Log Store, and a message of
\* any other type nothing.
C24_MessageTouchesOnlyItsState ==
  [][ /\ last'[1] = "OnMessageThought" =>
           UNCHANGED <<metrics, banks, interventions, pendingApprovals>>
      /\ last'[1] = "OnMessageMetrics" =>
           /\ metrics' = last'[2]
           /\ UNCHANGED <<banks, agentLogs, interventions, pendingApprovals, currentStage>>
      /\ last'[1] = "OnMessageBanks" =>
           /\ banks' = last'[2]
           /\ UNCHANGED <<metrics, agentLogs, interventions, pendingApprovals, currentStage>>
      /\ last'[1] = "OnMessageApproval" =>
           UNCHANGED <<metrics, banks, agentLogs, interventions, currentStage>>
      /\ last'[1] = "OnMessageIntervention" =>
           UNCHANGED <<metrics, banks, pendingApprovals, currentStage>>
      /\ last'[1] = "OnMessageOther" =>
           UNCHANGED <<metrics, banks, agentLogs, interventions, pendingApprovals, currentStage>>
      /\ last'[1] \in {"OnMessageThought", "OnMessageMetrics", "OnMessageBanks",
                       "OnMessageApproval", "OnMessageIntervention", "OnMessageOther"} =>
           UNCHANGED <<isConnected, simulatorRunning, agentRunning, calls, socks, timers>> ]_vars

\* C24 witness: messages of the five types have arrived, the last one a banks
\* message: the banks are its data and what the other four wrote is in place.
C24_Witness ==
  /\ last[1] = "OnMessageBanks" /\ banks = last[2] /\ Len(banks) = 1
  /\ metrics = Metrics(700, 900, 100, 300, 0)
  /\ Len(interventions) = 1 /\ Len(pendingApprovals) = 1
  /\ Len(agentLogs) = 3 /\ currentStage = "reason"

\* C25: the entries the Log Store retains have pairwise distinct ids.
C25_LogIdsDistinct ==
  \A i, j \in 1..Len(agentLogs) : agentLogs[i].id = agentLogs[j].id => i = j

\* C26: a request leaves the queue only through the completion of an approve
\* or a reject of it, or through reject-all.
C26_LeavesOnlyWhenDecided ==
  [][ (\E i \in 1..Len(pendingApprovals) :
         \A j \in 1..Len(pendingApprovals') : pendingApprovals'[j] # pendingApprovals[i])
      => last'[1] \in {"ApproveDone", "ApproveFailed", "RejectDone", "RejectAll"} ]_vars

\* C27: the ledger never holds two approved records with one id.
C27_OneRecordPerRequest ==
  \A i, j \in 1..Len(interventions) :
    ( /\ interventions[i].id = interventions[j].id
      /\ interventions[i].approved_by = Some("human")
      /\ interventions[j].approved_by = Some("human") ) => i = j

\* C28: the completion of an approve call for a request that is no longer
\* queued and has no record (it was rejected meanwhile) records nothing.
C28_RejectedNeverRecorded ==
  [][ ( /\ last'[1] \in {"ApproveDone", "ApproveFailed"}
        /\ ~Queued(pendingApprovals, last'[2].intervention_id)
        /\ \A i \in 1..Len(interventions) : interventions[i].id # last'[2].intervention_id )
      => interventions' = interventions ]_vars

\* C29: the record an approval creates has the request's intervention_id as
\* its id and the type, action and description of the request's descriptor.
C29_RecordCarriesDescriptor ==
  [][ last'[1] \in {"ApproveDone", "ApproveFailed"} =>
        /\ interventions'[1].id = last'[2].intervention_id
        /\ interventions'[1].type = last'[2].intervention.type
        /\ interventions'[1].action = last'[2].intervention.action
        /\ interventions'[1].description = last'[2].intervention.description ]_vars

\* An instance that has been torn down.
TornDown(i) == i < inst \/ (i = inst /\ ~mounted)

\* C30: a torn-down instance has no reconnect timer pending and no connection
\* attempt under way.
C30_NoReconnectAfterTeardown ==
  \A i \in Instances :
    TornDown(i) =>
      /\ timers[i] = 0
      /\ \A s \in SockIds : socks[s].inst = i => socks[s].st # "connecting"

====
